---- MODULE Spec2Model ----
(***************************************************************************)
(* Model of the pet simulation in src/src/main.rs (macroquad game loop).   *)
(*                                                                         *)
(* Numbers.  Every f32 quantity (stats, positions, velocities, speeds) is  *)
(* a fixed-point integer counting 1/10000 units, so 50.0 is 500000 and the *)
(* bug speed 0.12 is 1200.  Angles count 1/10000 radians.  Wall-clock      *)
(* times (f64 seconds returned by get_time()) count half seconds, so the   *)
(* comparison "now - t > 1.0" reads "now - t > 2".  get_time() is sampled  *)
(* once per frame: the clock advances at next_frame().await.               *)
(***************************************************************************)
EXTENDS Integers, Sequences, FiniteSets, TLC

(* ------------------------------------------------------------------ *)
(* Bounds of the model                                                *)
(* ------------------------------------------------------------------ *)
\* frames (loop iterations of any of the three loops) explored after Init
MaxFrames == 3
\* longest text typed on a naming screen
MaxName == 2

(* ------------------------------------------------------------------ *)
(* Number representation                                              *)
(* ------------------------------------------------------------------ *)
\* fixed-point resolution of the f32 fields: units per 1.0
Scale == 10000
\* clock resolution of the f64 times: units per second
TicksPerSecond == 2

Abs(a) == IF a < 0 THEN -a ELSE a

\* integer division truncating toward zero, as float-to-fixed truncation
TDiv(a, b) == IF a >= 0 THEN a \div b ELSE -((-a) \div b)

\* a * (num/den) in fixed point
FMul(a, num, den) == TDiv(a * num, den)

RECURSIVE IsqrtIter(_, _)
IsqrtIter(n, x) ==
    LET y == (x + n \div x) \div 2
    IN  IF y >= x THEN x ELSE IsqrtIter(n, y)

\* floor of the square root
Isqrt(n) == IF n <= 0 THEN 0 ELSE IsqrtIter(n, 46341)

\* f32::sqrt(dx*dx + dz*dz) of two fixed-point lengths, in fixed point.
\* Close range is computed at full resolution; beyond it the operands are
\* first cut to 1/100 units so that the squares stay within 32 bits.
Hypot(dx, dz) ==
    IF Abs(dx) <= 32000 /\ Abs(dz) <= 32000
    THEN Isqrt(dx * dx + dz * dz)
    ELSE LET a == TDiv(dx, 100)
             b == TDiv(dz, 100)
         IN  100 * Isqrt(a * a + b * b)

Clamp(v, lo, hi) == IF v < lo THEN lo ELSE IF v > hi THEN hi ELSE v

(* angles: 1/10000 rad *)
HalfPi == 15708
Pi == 2 * HalfPi

\* angle reduced to [-Pi, Pi)
WrapAngle(y) == ((y + Pi) % (2 * Pi)) - Pi

\* Taylor polynomial of sin on [-Pi/2, Pi/2], result in fixed point
SinCore(y) ==
    LET y2 == TDiv(y * y, Scale)
        a3 == TDiv(TDiv(y * y2, Scale), 6)
        a5 == TDiv(TDiv(a3 * y2, Scale), 20)
        a7 == TDiv(TDiv(a5 * y2, Scale), 42)
    IN  y - a3 + a5 - a7

\* f32::sin
Sin(y) ==
    LET w == WrapAngle(y)
    IN  IF w > HalfPi THEN SinCore(Pi - w)
        ELSE IF w < -HalfPi THEN SinCore(-Pi - w)
        ELSE SinCore(w)

\* f32::cos
Cos(y) == Sin(y + HalfPi)

(* ------------------------------------------------------------------ *)
(* Option<f64>                                                        *)
(* ------------------------------------------------------------------ *)
None == <<>>
Some(t) == <<t>>
IsNone(o) == o = <<>>

\* the decimal n/d in fixed point
Fx(n, d) == (n * Scale) \div d

\* seconds as clock units
Secs(n) == n * TicksPerSecond

(* ------------------------------------------------------------------ *)
(* Input of one frame (macroquad's polled state)                      *)
(*   keys     : movement keys held down (is_key_down)                  *)
(*   mdx, mdy : mouse_delta_position()                                 *)
(*   pressed  : keys that went down this frame (is_key_pressed)        *)
(*   chr      : get_char_pressed(): <<>> or <<c>>                      *)
(*   angle    : rand::gen_range(0, 360) of this frame's spawn          *)
(*   dt       : clock advance at next_frame().await                    *)
(* ------------------------------------------------------------------ *)
KeyFwd(in) == "Up" \in in.keys \/ "W" \in in.keys
KeyBack(in) == "Down" \in in.keys \/ "S" \in in.keys
KeyLeft(in) == "Left" \in in.keys \/ "A" \in in.keys
KeyRight(in) == "Right" \in in.keys \/ "D" \in in.keys

(* ------------------------------------------------------------------ *)
(* Bug                                                                *)
(* ------------------------------------------------------------------ *)
Bug_new(x, z) == [x |-> x, z |-> z, speed |-> Fx(12, 100)]

\* Bug::update without the division by the distance
Bug_update_raw(b, pet_x, pet_z) ==
    LET dx == pet_x - b.x
        dz == pet_z - b.z
    IN  IF Hypot(dx, dz) > Fx(1, 10)
        THEN [b EXCEPT !.x = b.x + TDiv(dx * b.speed, Scale),
                       !.z = b.z + TDiv(dz * b.speed, Scale)]
        ELSE b

Bug_update(b, pet_x, pet_z) ==
    LET dx == pet_x - b.x
        dz == pet_z - b.z
        dist == Hypot(dx, dz)
    IN  IF dist > Fx(1, 10)
        THEN [b EXCEPT !.x = b.x + TDiv(dx * b.speed, dist),
                       !.z = b.z + TDiv(dz * b.speed, dist)]
        ELSE b

(* ------------------------------------------------------------------ *)
(* Ball                                                               *)
(* ------------------------------------------------------------------ *)
Ball_new == [x |-> Fx(5, 1), z |-> Fx(5, 1), vx |-> 0, vz |-> 0, rotation |-> 0]

Ball_update(b) ==
    LET vx == FMul(b.vx, 95, 100)
        vz == FMul(b.vz, 95, 100)
        speed == Hypot(vx, vz)
    IN  [x |-> b.x + vx, z |-> b.z + vz, vx |-> vx, vz |-> vz,
         rotation |-> b.rotation + speed * 5]

(* ------------------------------------------------------------------ *)
(* Pet                                                                *)
(* ------------------------------------------------------------------ *)
Pet_new(name, now) ==
    [name |-> name,
     hunger |-> Fx(50, 1), happiness |-> Fx(50, 1), energy |-> Fx(50, 1),
     is_alive |-> TRUE,
     last_update |-> now,
     x |-> 0, y |-> 0, z |-> 0, vx |-> 0, vz |-> 0,
     rotation_v |-> 0, pitch |-> 0, yaw |-> 0,
     is_stationary |-> TRUE,
     start_time |-> now,
     death_time |-> None]

\* lines 194-209: the once-per-second stat decay
\* a tick that adds half a point of hunger
Pet_tick_half(p, is_moving, now) ==
    IF now - p.last_update > Secs(1)
    THEN [p EXCEPT !.hunger = p.hunger + Fx(5, 10),
                   !.happiness = p.happiness - Fx(25, 100),
                   !.energy = IF ~is_moving THEN p.energy + Fx(1, 1)
                              ELSE p.energy - Fx(5, 10),
                   !.last_update = now]
    ELSE p

Pet_tick(p, is_moving, now) ==
    IF now - p.last_update > Secs(1)
    THEN [p EXCEPT !.hunger = p.hunger + Fx(1, 1),
                   !.happiness = p.happiness - Fx(25, 100),
                   !.energy = IF ~is_moving THEN p.energy + Fx(1, 1)
                              ELSE p.energy - Fx(5, 10),
                   !.last_update = now]
    ELSE p

\* lines 211-213: friction
Friction(p) == [p EXCEPT !.vx = FMul(@, 95, 100), !.vz = FMul(@, 95, 100)]

\* lines 224-236: mouse look in first person
MouseLook(p, in, is_fps) ==
    IF is_fps
    THEN [p EXCEPT !.yaw = @ + in.mdx * 3,
                   !.pitch = Clamp(@ - in.mdy * 3, -Fx(15, 10), Fx(15, 10))]
    ELSE p

\* velocity gains sign * accel along the direction yaw + offset
Thrust(p, offset, sign) ==
    [p EXCEPT !.vx = @ + sign * FMul(Sin(p.yaw + offset), Fx(2, 100), Scale),
              !.vz = @ + sign * FMul(Cos(p.yaw + offset), Fx(2, 100), Scale)]

\* lines 239-250: forward and backward
KeysFwdBack(p, in) ==
    IF KeyFwd(in)
    THEN (IF KeyBack(in) THEN Thrust(Thrust(p, 0, 1), 0, -1) ELSE Thrust(p, 0, 1))
    ELSE (IF KeyBack(in) THEN Thrust(p, 0, -1) ELSE p)

\* lines 253-264: left strafes (first person) or turns (third person)
KeysLeft(p, in, is_fps) ==
    IF ~KeyLeft(in) THEN p
    ELSE IF is_fps THEN Thrust(p, -HalfPi, 1)
    ELSE [p EXCEPT !.yaw = @ - Fx(5, 100)]

\* lines 265-276: right strafes (first person) or turns (third person)
KeysRight(p, in, is_fps) ==
    IF ~KeyRight(in) THEN p
    ELSE IF is_fps THEN Thrust(p, HalfPi, 1)
    ELSE [p EXCEPT !.yaw = @ + Fx(5, 100)]

\* lines 278-295: position and roll
Integrate(p) ==
    LET roll == Hypot(p.vx, p.vz) * 5
    IN  [p EXCEPT !.x = @ + p.vx, !.z = @ + p.vz,
                  !.rotation_v = IF p.vx * Sin(p.yaw) + p.vz * Cos(p.yaw) > 0
                                 THEN @ + roll ELSE @ - roll]

\* lines 211-295: friction, mouse look, key input, integration, roll
Pet_move(p, in, is_fps) ==
    Integrate(KeysRight(KeysLeft(KeysFwdBack(MouseLook(Friction(p), in, is_fps),
                                             in), in, is_fps), in, is_fps))

\* a movement flag that a turn sets as well
ActuallyMoved_turning(in, is_fps) ==
    KeyFwd(in) \/ KeyBack(in) \/ KeyLeft(in) \/ KeyRight(in)

\* lines 238-276: whether a forward, backward or strafe key acted
ActuallyMoved(in, is_fps) ==
    KeyFwd(in) \/ KeyBack(in) \/ (is_fps /\ (KeyLeft(in) \/ KeyRight(in)))

\* lines 297-302: the per-frame movement cost
Pet_cost(p, in, is_fps) ==
    IF ActuallyMoved(in, is_fps)
    THEN [p EXCEPT !.energy = p.energy - Fx(5, 100),
                   !.hunger = p.hunger + Fx(2, 100)]
    ELSE p

\* a death that leaves death_time alone
Pet_death_unrecorded(p, now) ==
    IF p.hunger >= Fx(100, 1) \/ p.energy <= 0
    THEN [p EXCEPT !.is_alive = FALSE]
    ELSE p

\* a death check with strict comparisons
Pet_death_strict(p, now) ==
    IF p.hunger > Fx(100, 1) \/ p.energy < 0
    THEN [p EXCEPT !.is_alive = FALSE,
                   !.death_time = IF IsNone(p.death_time) THEN Some(now)
                                  ELSE p.death_time]
    ELSE p

\* lines 304-311: the game-over condition
Pet_death(p, now) ==
    IF p.hunger >= Fx(100, 1) \/ p.energy <= 0
    THEN [p EXCEPT !.is_alive = FALSE,
                   !.death_time = IF IsNone(p.death_time) THEN Some(now)
                                  ELSE p.death_time]
    ELSE p

\* lines 313-316
Pet_clamp(p) ==
    [p EXCEPT !.hunger = Clamp(p.hunger, 0, Fx(100, 1)),
              !.happiness = Clamp(p.happiness, 0, Fx(100, 1)),
              !.energy = Clamp(p.energy, 0, Fx(100, 1))]

\* lines 177-186: the stationary flag
Pet_classify(p, in) ==
    [p EXCEPT !.is_stationary = in.keys = {} /\ p.vx * p.vx + p.vz * p.vz < Fx(1, 10000) * Scale]

Pet_update(p, in, is_fps, now) ==
    IF ~p.is_alive THEN p
    ELSE Pet_clamp(Pet_death(Pet_cost(Pet_move(Pet_tick(Pet_classify(p, in),
                                                        in.keys # {}, now),
                                               in, is_fps),
                                      in, is_fps),
                             now))

\* feed() that does not ask whether the pet stands still
Pet_feed_moving(p) ==
    IF p.is_alive
    THEN <<[p EXCEPT !.hunger = p.hunger - Fx(15, 1)], TRUE>>
    ELSE <<p, FALSE>>

\* feed/play/sleep return <<pet, result>>
Pet_feed(p) ==
    IF p.is_alive /\ p.is_stationary
    THEN <<[p EXCEPT !.hunger = p.hunger - Fx(15, 1)], TRUE>>
    ELSE <<p, FALSE>>

\* play() that clamps what it writes
Pet_play_clamped(p) ==
    IF p.is_alive /\ p.is_stationary
    THEN <<[p EXCEPT !.happiness = Clamp(p.happiness + Fx(15, 1), 0, Fx(100, 1)),
                     !.energy = Clamp(p.energy - Fx(10, 1), 0, Fx(100, 1))], TRUE>>
    ELSE <<p, FALSE>>

Pet_play(p) ==
    IF p.is_alive /\ p.is_stationary
    THEN <<[p EXCEPT !.happiness = p.happiness + Fx(15, 1),
                     !.energy = p.energy - Fx(10, 1)], TRUE>>
    ELSE <<p, FALSE>>

Pet_sleep(p) ==
    IF p.is_alive /\ p.is_stationary
    THEN <<[p EXCEPT !.energy = p.energy + Fx(20, 1),
                     !.hunger = p.hunger + Fx(5, 1)], TRUE>>
    ELSE <<p, FALSE>>

(* ------------------------------------------------------------------ *)
(* Program state of main()                                            *)
(*   pc : where main() waits at next_frame().await                    *)
(*     "Naming"   the first naming loop          (lines 374-400)      *)
(*     "Setup"    after it, before the main loop (lines 402-421)      *)
(*     "Main"     the main loop                  (lines 424-775)      *)
(*     "Renaming" the nested renaming loop       (lines 704-724)      *)
(*     "Restart"  after it, inside the main loop (lines 725-774)      *)
(*   obs : what the last step did (the frame's input, the pet before  *)
(*         and after Pet::update, the bug before Bug::update, the     *)
(*         values feed/play/sleep returned, the number of bugs that   *)
(*         moved, the pet and the messages around the bug loop, the   *)
(*         ball before the pet-ball step and the pet after it, which  *)
(*         is the pet the HUD bars are drawn from, the chunks the     *)
(*         frame generated and those generated before)                *)
(*   frames : steps taken since Init                                  *)
(* ------------------------------------------------------------------ *)
VARIABLES pc, now, naming_input, my_pet, ball, bugs, current_bug_speed,
          last_bug_spawn, last_speed_increase, message, camera_mode,
          obs, frames

vars == <<pc, now, naming_input, my_pet, ball, bugs, current_bug_speed,
          last_bug_spawn, last_speed_increase, message, camera_mode,
          obs, frames>>

State ==
    [pc |-> pc, now |-> now, naming_input |-> naming_input, my_pet |-> my_pet,
     ball |-> ball, bugs |-> bugs, current_bug_speed |-> current_bug_speed,
     last_bug_spawn |-> last_bug_spawn,
     last_speed_increase |-> last_speed_increase,
     message |-> message, camera_mode |-> camera_mode, obs |-> obs]

MoveKeys == {"Up", "W", "Down", "S", "Left", "A", "Right", "D"}

\* an input with nothing pressed, nothing typed and no time passing
NoInput ==
    [keys |-> {}, mdx |-> 0, mdy |-> 0, pressed |-> {}, chr |-> <<>>,
     angle |-> 0, dt |-> 0]

NoObs == [step |-> "init", in |-> NoInput, upd |-> Pet_new(<<>>, 0),
          pre |-> Pet_new(<<>>, 0), bug |-> Bug_new(0, 0), t |-> 0,
          ret |-> <<>>, spawned |-> FALSE, faster |-> FALSE, hit |-> FALSE,
          n |-> 0, bugged |-> Pet_new(<<>>, 0), msgs |-> <<>>,
          ball |-> Ball_new, hud |-> Pet_new(<<>>, 0),
          chunks |-> <<>>, seen |-> <<>>, ticks |-> 0, gen |-> <<>>]

(* ------------------------------------------------------------------ *)
(* The naming screens                                                 *)
(* ------------------------------------------------------------------ *)
\* char::is_alphabetic() || is_ascii_punctuation() || c == ' ', over the
\* characters the model types
Accepted(c) == c \in {"a", "b", "r", "!", " "}

RECURSIVE TrimStart(_)
TrimStart(t) ==
    IF t # <<>> /\ Head(t) = " " THEN TrimStart(Tail(t)) ELSE t

RECURSIVE TrimEnd(_)
TrimEnd(t) ==
    IF t # <<>> /\ t[Len(t)] = " " THEN TrimEnd(SubSeq(t, 1, Len(t) - 1)) ELSE t

\* str::trim
Trim(t) == TrimEnd(TrimStart(t))

\* lines 383-392 and 710-717: one character, then backspace
EditName(t, in) ==
    LET t1 == IF in.chr # <<>> /\ Accepted(in.chr[1]) THEN t \o in.chr ELSE t
    IN  IF "Backspace" \in in.pressed /\ t1 # <<>>
        THEN SubSeq(t1, 1, Len(t1) - 1) ELSE t1

\* lines 394 and 718
\* a confirmation that takes any typed text, blank or not
Confirmed_untrimmed(t, in) == "Enter" \in in.pressed /\ t # <<>>

Confirmed(t, in) == "Enter" \in in.pressed /\ Trim(t) # <<>>

\* one iteration of the first naming loop, lines 374-400
NamingFrame(s, in) ==
    LET t == EditName(s.naming_input, in)
        ok == Confirmed(t, in)
    IN  [s EXCEPT !.naming_input = t,
                  !.my_pet = IF ok THEN [s.my_pet EXCEPT !.name = Trim(t)]
                             ELSE s.my_pet,
                  !.pc = IF ok THEN "Setup" ELSE "Naming",
                  !.obs = [NoObs EXCEPT !.step = "naming", !.in = in, !.t = s.now],
                  !.now = s.now + in.dt]

\* lines 402-421: the game objects of the first session
Setup(s) ==
    [s EXCEPT !.ball = Ball_new,
              !.bugs = <<Bug_new(Fx(30, 1), Fx(30, 1)),
                         Bug_new(-Fx(30, 1), Fx(45, 1)),
                         Bug_new(Fx(45, 1), -Fx(30, 1))>>,
              !.current_bug_speed = Fx(12, 100),
              !.last_bug_spawn = s.now,
              !.last_speed_increase = s.now,
              !.message = <<"Take care of your 3D pet!">>,
              !.camera_mode = "ThirdPerson",
              !.pc = "Main",
              !.obs = [NoObs EXCEPT !.step = "setup", !.t = s.now]]

\* one iteration of the renaming loop, lines 704-724
RenamingFrame(s, in) ==
    LET t == EditName(s.naming_input, in)
        ok == Confirmed(t, in)
    IN  [s EXCEPT !.naming_input = t,
                  !.my_pet = IF ok THEN Pet_new(Trim(t), s.now) ELSE s.my_pet,
                  !.pc = IF ok THEN "Restart" ELSE "Renaming",
                  !.obs = [NoObs EXCEPT !.step = "renaming", !.in = in, !.t = s.now],
                  !.now = s.now + in.dt]

\* a restart that keeps the bugs of the session before
Restart_keeping(s, in) ==
    [s EXCEPT !.ball = Ball_new,
              !.bugs = @ \o <<Bug_new(s.my_pet.x + Fx(30, 1), s.my_pet.z + Fx(30, 1)),
                              Bug_new(s.my_pet.x - Fx(30, 1), s.my_pet.z + Fx(45, 1)),
                              Bug_new(s.my_pet.x + Fx(45, 1), s.my_pet.z - Fx(30, 1))>>,
              !.current_bug_speed = Fx(12, 100),
              !.last_bug_spawn = s.now,
              !.last_speed_increase = s.now,
              !.message = <<"Welcome back!">>,
              !.pc = "Main",
              !.obs = [NoObs EXCEPT !.step = "restart", !.in = in, !.t = s.now],
              !.now = s.now + in.dt]

\* a restart that also puts the camera back to third person
Restart_camera(s, in) ==
    [s EXCEPT !.ball = Ball_new,
              !.bugs = <<Bug_new(s.my_pet.x + Fx(30, 1), s.my_pet.z + Fx(30, 1)),
                         Bug_new(s.my_pet.x - Fx(30, 1), s.my_pet.z + Fx(45, 1)),
                         Bug_new(s.my_pet.x + Fx(45, 1), s.my_pet.z - Fx(30, 1))>>,
              !.current_bug_speed = Fx(12, 100),
              !.last_bug_spawn = s.now,
              !.last_speed_increase = s.now,
              !.message = <<"Welcome back!">>,
              !.camera_mode = "ThirdPerson",
              !.pc = "Main",
              !.obs = [NoObs EXCEPT !.step = "restart", !.in = in, !.t = s.now],
              !.now = s.now + in.dt]

\* lines 725-737 and 768-774: the game objects of the next session, and the
\* end of the main-loop iteration in which R was pressed
Restart(s, in) ==
    [s EXCEPT !.ball = Ball_new,
              !.bugs = <<Bug_new(s.my_pet.x + Fx(30, 1), s.my_pet.z + Fx(30, 1)),
                         Bug_new(s.my_pet.x - Fx(30, 1), s.my_pet.z + Fx(45, 1)),
                         Bug_new(s.my_pet.x + Fx(45, 1), s.my_pet.z - Fx(30, 1))>>,
              !.current_bug_speed = Fx(12, 100),
              !.last_bug_spawn = s.now,
              !.last_speed_increase = s.now,
              !.message = <<"Welcome back!">>,
              !.pc = "Main",
              !.obs = [NoObs EXCEPT !.step = "restart", !.in = in, !.t = s.now],
              !.now = s.now + in.dt]

(* ------------------------------------------------------------------ *)
(* The main loop                                                      *)
(* ------------------------------------------------------------------ *)
\* lines 429-436
ToggleCamera(mode, in) ==
    IF "V" \in in.pressed
    THEN (IF mode = "FirstPerson" THEN "ThirdPerson" ELSE "FirstPerson")
    ELSE mode

\* bugs that move with the speed they carry
MoveBugs_stale(bs, speed, pet) ==
    [i \in 1..Len(bs) |-> Bug_update(bs[i], pet.x, pet.z)]

\* lines 446-447: every bug takes the session speed and moves
MoveBugs(bs, speed, pet) ==
    [i \in 1..Len(bs) |-> Bug_update([bs[i] EXCEPT !.speed = speed], pet.x, pet.z)]

\* a contact that drains without asking whether the pet is alive
BugContact_draining(b, pet, msg, t) ==
    LET bdist == Hypot(pet.x - b.x, pet.z - b.z)
    IN  IF bdist < Fx(1, 1) /\ pet.is_alive
        THEN <<[pet EXCEPT !.is_alive = FALSE,
                           !.death_time = IF IsNone(pet.death_time)
                                          THEN Some(t) ELSE pet.death_time],
               <<"was killed by a bug!", pet.name>> >>
        ELSE IF bdist < Fx(2, 1)
        THEN <<[pet EXCEPT !.happiness = pet.happiness - Fx(1, 10),
                           !.energy = pet.energy - Fx(5, 100)],
               <<"A bug is closing in!">> >>
        ELSE <<pet, msg>>

\* a contact that kills without asking whether the pet is alive
BugContact_unguarded(b, pet, msg, t) ==
    LET bdist == Hypot(pet.x - b.x, pet.z - b.z)
    IN  IF bdist < Fx(1, 1)
        THEN <<[pet EXCEPT !.is_alive = FALSE,
                           !.death_time = IF IsNone(pet.death_time)
                                          THEN Some(t) ELSE pet.death_time],
               <<"was killed by a bug!", pet.name>> >>
        ELSE IF bdist < Fx(2, 1) /\ pet.is_alive
        THEN <<[pet EXCEPT !.happiness = pet.happiness - Fx(1, 10),
                           !.energy = pet.energy - Fx(5, 100)],
               <<"A bug is closing in!">> >>
        ELSE <<pet, msg>>

\* lines 450-466 for one bug that has moved: <<pet, message>>
BugContact(b, pet, msg, t) ==
    LET bdist == Hypot(pet.x - b.x, pet.z - b.z)
    IN  IF bdist < Fx(1, 1) /\ pet.is_alive
        THEN <<[pet EXCEPT !.is_alive = FALSE,
                           !.death_time = IF IsNone(pet.death_time)
                                          THEN Some(t) ELSE pet.death_time],
               <<"was killed by a bug!", pet.name>> >>
        ELSE IF bdist < Fx(2, 1) /\ pet.is_alive
        THEN <<[pet EXCEPT !.happiness = pet.happiness - Fx(1, 10),
                           !.energy = pet.energy - Fx(5, 100)],
               <<"A bug is closing in!">> >>
        ELSE <<pet, msg>>

\* lines 444-467: the contacts of bugs lo..hi in order, on <<pet, message>>
\* (the range is split in two so that the evaluation stays shallow)
RECURSIVE BugLoop(_, _, _, _, _)
BugLoop(bs, lo, hi, pm, t) ==
    IF lo > hi THEN pm
    ELSE IF lo = hi THEN BugContact(bs[lo], pm[1], pm[2], t)
    ELSE LET mid == (lo + hi) \div 2
             left == BugLoop(bs, lo, mid, pm, t)
         IN  IF left = <<>> THEN left ELSE BugLoop(bs, mid + 1, hi, left, t)

\* f32::to_radians of a whole number of degrees
ToRadians(deg) == (deg * Pi) \div 180

\* a * b of two fixed-point numbers where a may be large
FMulBig(a, b) == TDiv(TDiv(a, 100) * b, 100)

\* lines 471-479: the 67 bugs of one spawn (every draw of the burst gives
\* the frame's angle)
SpawnBugs(pet, speed, angle) ==
    LET twice == speed * 2
        dist == Fx(50, 1) + (IF twice < Fx(500, 1) THEN twice ELSE Fx(500, 1))
        rad == ToRadians(angle)
        b == Bug_new(pet.x + FMulBig(dist, Cos(rad)), pet.z + FMulBig(dist, Sin(rad)))
    IN  [i \in 1..67 |-> b]

\* lines 429-436: the V key
StageCamera(s, in) ==
    IF "V" \in in.pressed
    THEN [s EXCEPT !.camera_mode = ToggleCamera(@, in),
                   !.message = <<"Switched to POV", ToggleCamera(s.camera_mode, in)>>]
    ELSE s

\* line 439
StagePet(s, in) ==
    [s EXCEPT !.my_pet = Pet_update(@, in, s.camera_mode = "FirstPerson", s.now)]

\* what the frame has done so far
Observe(s, in, before) ==
    [s EXCEPT !.obs = [NoObs EXCEPT !.step = "main", !.in = in, !.pre = before,
                                    !.t = s.now, !.upd = s.my_pet,
                                    !.msgs = <<s.message>>]]

\* line 441
StageBall(s) == [s EXCEPT !.ball = Ball_update(@)]

\* lines 444-467, given the bugs as moved
BugContacts(s, moved) ==
    IF moved = <<>> THEN s
    ELSE LET pm == BugLoop(moved, 1, Len(moved), <<s.my_pet, s.message>>, s.now)
         IN  [s EXCEPT !.bugs = moved, !.my_pet = pm[1], !.message = pm[2]]

\* a bug loop that runs only while the pet is alive
StageBugs_playing(s) ==
    IF s.my_pet.is_alive
    THEN BugContacts(s, MoveBugs(s.bugs, s.current_bug_speed, s.my_pet))
    ELSE s

StageBugs(s) == BugContacts(s, MoveBugs(s.bugs, s.current_bug_speed, s.my_pet))

\* the pet, the message and the number of bugs as the bug loop leaves them
ObserveBugs(s) ==
    [s EXCEPT !.obs.n = Len(s.bugs), !.obs.bugged = s.my_pet,
              !.obs.msgs = Append(@, s.message)]

\* a spawn check that also fires at exactly one second
StageSpawn_inclusive(s, in) ==
    IF s.now - s.last_bug_spawn >= Secs(1)
    THEN [s EXCEPT !.bugs = @ \o SpawnBugs(s.my_pet, s.current_bug_speed, in.angle),
                   !.last_bug_spawn = s.now,
                   !.obs.spawned = TRUE]
    ELSE s

\* lines 469-481
StageSpawn(s, in) ==
    IF s.now - s.last_bug_spawn > Secs(1)
    THEN [s EXCEPT !.bugs = @ \o SpawnBugs(s.my_pet, s.current_bug_speed, in.angle),
                   !.last_bug_spawn = s.now,
                   !.obs.spawned = TRUE]
    ELSE s

\* a difficulty check that also fires at exactly five seconds
StageSpeed_inclusive(s) ==
    IF s.now - s.last_speed_increase >= Secs(5)
    THEN [s EXCEPT !.current_bug_speed = @ + Fx(2, 100),
                   !.last_speed_increase = s.now,
                   !.message = <<"Speed slightly increased...">>,
                   !.obs.faster = TRUE]
    ELSE s

\* lines 483-488
StageSpeed(s) ==
    IF s.now - s.last_speed_increase > Secs(5)
    THEN [s EXCEPT !.current_bug_speed = @ + Fx(2, 100),
                   !.last_speed_increase = s.now,
                   !.message = <<"Speed slightly increased...">>,
                   !.obs.faster = TRUE]
    ELSE s

\* a push that adds to the ball's velocity instead of replacing it
StagePetBall_adding(s) ==
    LET dx == s.my_pet.x - s.ball.x
        dz == s.my_pet.z - s.ball.z
    IN  IF Hypot(dx, dz) < Fx(15, 10)
        THEN [s EXCEPT !.ball.vx = @ + FMul(-dx, 2, 10),
                       !.ball.vz = @ + FMul(-dz, 2, 10),
                       !.my_pet.happiness = @ + Fx(1, 1),
                       !.obs.hit = TRUE]
        ELSE s

\* lines 490-502
StagePetBall(s) ==
    LET dx == s.my_pet.x - s.ball.x
        dz == s.my_pet.z - s.ball.z
    IN  IF Hypot(dx, dz) < Fx(15, 10)
        THEN [s EXCEPT !.ball.vx = FMul(-dx, 2, 10),
                       !.ball.vz = FMul(-dz, 2, 10),
                       !.my_pet.happiness = @ + Fx(1, 1),
                       !.obs.hit = TRUE]
        ELSE s

\* the ball as the pet-ball step finds it
ObserveBall(s) == [s EXCEPT !.obs.ball = s.ball]

\* the pet as lines 687-689 draw its bars
ObserveHud(s) == [s EXCEPT !.obs.hud = s.my_pet]

\* the call, its message and its recorded result
Acted(s, act, r, okmsg, failmsg) ==
    [s EXCEPT !.my_pet = r[1],
              !.message = IF r[2] THEN <<okmsg, s.my_pet.name>> ELSE <<failmsg>>,
              !.obs.ret = Append(@, <<act, r[2]>>)]

\* lines 745-751
KeyFeed(s, in) ==
    IF "Key1" \in in.pressed
    THEN Acted(s, "feed", Pet_feed(s.my_pet), "You fed", "Stand still to eat!")
    ELSE s

\* lines 752-758
KeyPlay(s, in) ==
    IF "Key2" \in in.pressed
    THEN Acted(s, "play", Pet_play(s.my_pet), "You played with", "Stand still to play!")
    ELSE s

\* lines 759-765
KeySleep(s, in) ==
    IF "Key3" \in in.pressed
    THEN Acted(s, "sleep", Pet_sleep(s.my_pet), "is sleeping...", "Stand still to sleep!")
    ELSE s

\* a HUD stage that honours R whether or not the pet is alive
StageHud_anytime(s, in) ==
    IF "R" \in in.pressed
    THEN [s EXCEPT !.naming_input = <<>>, !.pc = "Renaming"]
    ELSE IF ~s.my_pet.is_alive
    THEN [s EXCEPT !.now = @ + in.dt]
    ELSE [KeySleep(KeyPlay(KeyFeed(s, in), in), in) EXCEPT !.now = @ + in.dt]

\* lines 692-766: the game-over screen with its restart key, or the action
\* keys; and lines 768-774, the end of the frame.  R on the game-over
\* screen enters the renaming loop within the same frame.
StageHud(s, in) ==
    IF ~s.my_pet.is_alive
    THEN (IF "R" \in in.pressed
          THEN [s EXCEPT !.naming_input = <<>>, !.pc = "Renaming"]
          ELSE [s EXCEPT !.now = @ + in.dt])
    ELSE [KeySleep(KeyPlay(KeyFeed(s, in), in), in) EXCEPT !.now = @ + in.dt]

\* one iteration of the main loop, lines 424-775
MainFrame(s, in) ==
    StageHud(ObserveHud(StagePetBall(ObserveBall(StageSpeed(StageSpawn(
        ObserveBugs(StageBugs(StageBall(
            Observe(StagePet(StageCamera(s, in), in), in, s.my_pet)))), in))))), in)

\* one step of main() from s
Step(s, in) ==
    IF s.pc = "Naming" THEN NamingFrame(s, in)
    ELSE IF s.pc = "Setup" THEN Setup(s)
    ELSE IF s.pc = "Main" THEN MainFrame(s, in)
    ELSE IF s.pc = "Renaming" THEN RenamingFrame(s, in)
    ELSE Restart(s, in)

(* ------------------------------------------------------------------ *)
(* Inputs the model draws                                             *)
(* ------------------------------------------------------------------ *)
Keys(ks) == [NoInput EXCEPT !.keys = ks]
Press(ps) == [NoInput EXCEPT !.pressed = ps]
Wait(d) == [NoInput EXCEPT !.dt = d]
Type(c) == [NoInput EXCEPT !.chr = <<c>>]

\* frames of the naming screens
NamingInputs ==
    {Type("a"), Type(" "), Type("1"), Press({"Backspace"}), Press({"Enter"}),
     [Press({"Enter"}) EXCEPT !.dt = 3],
     [Type("a") EXCEPT !.pressed = {"Enter"}, !.dt = 1]}

\* frames of the main loop
MainInputs ==
    {NoInput, Wait(2), Wait(3),
     Keys({"W"}), Keys({"A"}), [Keys({"S", "D"}) EXCEPT !.dt = 3],
     Press({"V"}), [Press({"V"}) EXCEPT !.mdx = 100, !.mdy = -6000],
     Press({"Key1"}), Press({"Key2"}), Press({"Key3"}),
     [Keys({"Up"}) EXCEPT !.pressed = {"Key1", "Key2", "Key3"}],
     [Press({"R"}) EXCEPT !.angle = 90]}

\* the step after a confirmed rename
RestartInputs == {NoInput, Wait(1)}

(* ------------------------------------------------------------------ *)
(* Initial states                                                     *)
(* ------------------------------------------------------------------ *)
\* main() at the first naming frame, lines 366-371; the objects of lines
\* 403-421 do not exist yet and hold the values Setup gives them
Start ==
    [pc |-> "Naming", now |-> 0, naming_input |-> <<>>,
     my_pet |-> Pet_new(<<>>, 0),
     ball |-> Ball_new, bugs |-> <<>>, current_bug_speed |-> Fx(12, 100),
     last_bug_spawn |-> 0, last_speed_increase |-> 0,
     message |-> <<>>, camera_mode |-> "ThirdPerson", obs |-> NoObs]

\* the state n steps after s with the input held (the run is split in two
\* so that the evaluation stays shallow)
RECURSIVE Hold(_, _, _)
Hold(s, in, n) ==
    IF n = 0 THEN s
    ELSE IF n = 1 THEN Step(s, in)
    ELSE LET half == Hold(s, in, n \div 2)
         IN  IF half.bugs = <<0>> THEN half ELSE Hold(half, in, n - n \div 2)

\* the state after playing a script from s: a script is a sequence of
\* <<input, n>>, the input being held for n steps
RECURSIVE Replay(_, _)
Replay(s, script) ==
    IF script = <<>> THEN s
    ELSE Replay(Hold(s, Head(script)[1], Head(script)[2]), Tail(script))

\* scripts: runs of the program from Start that bring it to the situations
\* the model explores from
Begin == << <<[Type("a") EXCEPT !.pressed = {"Enter"}, !.dt = 1], 1>>, <<NoInput, 1>> >>

Scripts ==
    {<<>>,
     \* a session that has just begun
     Begin,
     \* four seconds without a frame
     Begin \o << <<Wait(8), 1>> >>,
     \* first person, then five rounds of play: no energy left
     Begin \o << <<Press({"V"}), 1>>, <<Press({"Key2"}), 5>> >>,
     \* the same, then six seconds on the game-over screen: the speed has
     \* grown and the next spawn is due
     Begin \o << <<Press({"V"}), 1>>, <<Press({"Key2"}), 5>>,
                 <<Wait(11), 1>>, <<Wait(3), 1>> >>,
     \* the same, then R on the game-over screen
     Begin \o << <<Press({"V"}), 1>>, <<Press({"Key2"}), 5>>, <<Press({"R"}), 1>> >>,
     \* four rounds of play, then a first-person run away from the ball and
     \* back into it, until the energy is all but spent
     Begin \o << <<Press({"Key2"}), 4>>, <<Press({"V"}), 1>>,
                 <<Keys({"S", "A"}), 85>>, <<Keys({"W", "D"}), 114>> >>,
     \* a wait, the spawn of 67 bugs ahead of the pet, and a walk towards
     \* them until they are 2.4 away
     Begin \o << <<Wait(3), 1>>, <<[NoInput EXCEPT !.angle = 90], 1>>,
                 <<Keys({"W"}), 107>> >>,
     \* four rounds of play, then standing still until the first bug is
     \* about to arrive: the energy of one more round
     Begin \o << <<Press({"Key2"}), 4>>, <<NoInput, 340>> >>,
     \* nine naps, a walk of 225 frames and a wait: hunger 99.5, a tick due
     Begin \o << <<Press({"Key3"}), 9>>, <<Keys({"W"}), 225>>, <<Wait(3), 1>> >>}

Install(s) ==
    /\ pc = s.pc
    /\ now = s.now
    /\ naming_input = s.naming_input
    /\ my_pet = s.my_pet
    /\ ball = s.ball
    /\ bugs = s.bugs
    /\ current_bug_speed = s.current_bug_speed
    /\ last_bug_spawn = s.last_bug_spawn
    /\ last_speed_increase = s.last_speed_increase
    /\ message = s.message
    /\ camera_mode = s.camera_mode
    /\ obs = s.obs

Init ==
    /\ \E sc \in Scripts : Install(Replay(Start, sc))
    /\ frames = 0

Become(s) ==
    /\ pc' = s.pc
    /\ now' = s.now
    /\ naming_input' = s.naming_input
    /\ my_pet' = s.my_pet
    /\ ball' = s.ball
    /\ bugs' = s.bugs
    /\ current_bug_speed' = s.current_bug_speed
    /\ last_bug_spawn' = s.last_bug_spawn
    /\ last_speed_increase' = s.last_speed_increase
    /\ message' = s.message
    /\ camera_mode' = s.camera_mode
    /\ obs' = s.obs
    /\ frames' = frames + 1

NamingStep ==
    /\ pc = "Naming"
    /\ frames < MaxFrames
    /\ \E in \in NamingInputs :
          /\ Len(EditName(naming_input, in)) <= MaxName
          /\ Become(NamingFrame(State, in))

SetupStep ==
    /\ pc = "Setup"
    /\ frames < MaxFrames
    /\ Become(Setup(State))

MainStep ==
    /\ pc = "Main"
    /\ frames < MaxFrames
    /\ \E in \in MainInputs : Become(MainFrame(State, in))

RenamingStep ==
    /\ pc = "Renaming"
    /\ frames < MaxFrames
    /\ \E in \in NamingInputs :
          /\ Len(EditName(naming_input, in)) <= MaxName
          /\ Become(RenamingFrame(State, in))

RestartStep ==
    /\ pc = "Restart"
    /\ frames < MaxFrames
    /\ \E in \in RestartInputs : Become(Restart(State, in))

Next == NamingStep \/ SetupStep \/ MainStep \/ RenamingStep \/ RestartStep

Spec == Init /\ [][Next]_vars

(* ------------------------------------------------------------------ *)
(* Pet::feed, Pet::play and Pet::sleep on their own                   *)
(* ------------------------------------------------------------------ *)
\* stat values of the sampled pets
StatSamples == {0, Fx(50, 1), Fx(95, 1)}

\* pets in every combination of the two flags the methods read
PetSamples ==
    {[Pet_new(<<"a">>, 0) EXCEPT !.is_alive = a, !.is_stationary = st,
                                 !.hunger = h, !.happiness = hp, !.energy = e,
                                 !.death_time = IF a THEN None ELSE Some(0)] :
        a \in BOOLEAN, st \in BOOLEAN,
        h \in StatSamples, hp \in StatSamples, e \in StatSamples}

InitPet ==
    /\ \E p \in PetSamples : Install([Start EXCEPT !.pc = "Call", !.my_pet = p])
    /\ frames = 0

\* the pet and the returned value of one call
Called(act, r) ==
    /\ my_pet' = r[1]
    /\ obs' = [NoObs EXCEPT !.step = "call", !.pre = my_pet, !.ret = << <<act, r[2]>> >>]
    /\ frames' = frames + 1
    /\ UNCHANGED <<pc, now, naming_input, ball, bugs, current_bug_speed,
                   last_bug_spawn, last_speed_increase, message, camera_mode>>

FeedCall ==
    /\ frames < MaxFrames
    /\ Called("feed", Pet_feed(my_pet))

PlayCall ==
    /\ frames < MaxFrames
    /\ Called("play", Pet_play(my_pet))

SleepCall ==
    /\ frames < MaxFrames
    /\ Called("sleep", Pet_sleep(my_pet))

NextPet == FeedCall \/ PlayCall \/ SleepCall

SpecPet == InitPet /\ [][NextPet]_vars

(* ------------------------------------------------------------------ *)
(* Bug::update on its own                                             *)
(* ------------------------------------------------------------------ *)
\* bugs on, near and far from the target, at three session speeds
BugSamples ==
    {[x |-> x, z |-> z, speed |-> sp] :
        x \in {0, 500, 1000, 1100, 3000, 300000},
        z \in {0, 400, -20000, 400000},
        sp \in {Fx(12, 100), Fx(14, 100), Fx(22, 100)}}

\* targets: my_pet.x and my_pet.z
TargetSamples == {<<0, 0>>, <<1000, 0>>, <<-50000, 70000>>}

InitBug ==
    /\ \E b \in BugSamples, tg \in TargetSamples :
          Install([Start EXCEPT !.pc = "Bug", !.bugs = <<b>>,
                                !.my_pet.x = tg[1], !.my_pet.z = tg[2]])
    /\ frames = 0

BugCall ==
    /\ frames < MaxFrames
    /\ bugs' = <<Bug_update(bugs[1], my_pet.x, my_pet.z)>>
    /\ obs' = [NoObs EXCEPT !.step = "bug", !.bug = bugs[1]]
    /\ frames' = frames + 1
    /\ UNCHANGED <<pc, now, naming_input, my_pet, ball, current_bug_speed,
                   last_bug_spawn, last_speed_increase, message, camera_mode>>

NextBug == BugCall

SpecBug == InitBug /\ [][NextBug]_vars

(* ------------------------------------------------------------------ *)
(* The pet of one session, frame after frame, with feed() never called *)
(* ------------------------------------------------------------------ *)
\* frames of a session without feed(): no time passes, 1.5 s pass, play, sleep
LifeInputs ==
    {NoInput, Wait(3), [Press({"Key2"}) EXCEPT !.dt = 3],
     [Press({"Key3"}) EXCEPT !.dt = 3]}

\* what a frame of the main loop does to the pet, the clock and the message:
\* Pet::update (line 439) and the HUD with the action keys (lines 686-765)
LifeFrame(s, in) ==
    StageHud(ObserveHud(Observe(StagePet(s, in), in, s.my_pet)), in)

\* the frame counted, n ticks before it: of the frame only the pet its
\* update returned is kept
CountTick(s, n) ==
    [s EXCEPT !.obs = [NoObs EXCEPT
         !.step = "life",
         !.upd = s.obs.upd,
         !.ticks = n + (IF s.obs.upd.last_update # s.obs.pre.last_update
                        THEN 1 ELSE 0)]]

InitLife ==
    /\ Install([Replay(Start, Begin) EXCEPT !.pc = "Life"])
    /\ frames = 0

LifeTurn(s) ==
    /\ my_pet' = s.my_pet
    /\ now' = s.now
    /\ message' = s.message
    /\ obs' = s.obs
    /\ UNCHANGED <<pc, naming_input, ball, bugs, current_bug_speed,
                   last_bug_spawn, last_speed_increase, camera_mode, frames>>

LifeStep ==
    /\ pc = "Life"
    /\ my_pet.is_alive
    /\ \E in \in LifeInputs : LifeTurn(CountTick(LifeFrame(State, in), obs.ticks))

\* the clock advances over a frame of a live pet's session (get_time, line 774)
AdvancingFrame ==
    /\ pc = "Life"
    /\ my_pet.is_alive
    /\ now' \in {now + in.dt : in \in LifeInputs} \ {now}

NextLife == LifeStep

SpecLife == InitLife /\ [][NextLife]_vars /\ WF_now(AdvancingFrame)

(* ------------------------------------------------------------------ *)
(* Properties                                                         *)
(* ------------------------------------------------------------------ *)
\* the three stats lie in [0, 100]
InRange(p) ==
    /\ 0 <= p.hunger /\ p.hunger <= Fx(100, 1)
    /\ 0 <= p.happiness /\ p.happiness <= Fx(100, 1)
    /\ 0 <= p.energy /\ p.energy <= Fx(100, 1)

\* C1: after every call of Pet::update in the main loop, on a live or a dead
\* pet, hunger, happiness and energy are each within [0, 100].
C1_StatsInRangeAfterUpdate == obs.step = "main" => InRange(obs.upd)

\* the survival time the game-over screen shows, line 694
FinalSurvival(p, t) ==
    (IF IsNone(p.death_time) THEN t ELSE p.death_time[1]) - p.start_time

\* the step replaces the Pet instance (line 720)
NewPet == pc = "Renaming" /\ pc' = "Restart"

C2_Step ==
    /\ my_pet.is_alive /\ ~my_pet'.is_alive
          => IsNone(my_pet.death_time) /\ my_pet'.death_time = Some(now)
    /\ ~my_pet.is_alive /\ ~NewPet
          => /\ my_pet'.death_time = my_pet.death_time
             /\ FinalSurvival(my_pet', now') = my_pet.death_time[1] - my_pet.start_time

\* C2: death_time is unset exactly while the pet is alive; the step that
\* turns is_alive from true to false writes it, with the time of that frame;
\* from then on the same Pet keeps it, and the survival time shown is the
\* constant death_time - start_time.
C2_DeathTimeWrittenOnce ==
    /\ [](IsNone(my_pet.death_time) <=> my_pet.is_alive)
    /\ [][C2_Step]_vars

\* a frame has run on a pet that had died in an earlier frame, of exhaustion
\* or by a bug
C2_Witness ==
    /\ frames > 0
    /\ obs.step = "main"
    /\ ~obs.pre.is_alive
    /\ my_pet.death_time = obs.pre.death_time
    /\ my_pet.death_time # None
    /\ obs.t > my_pet.death_time[1]

\* the state of the session
SessionState ==
    IF pc = "Naming" THEN "Naming"
    ELSE IF pc = "Renaming" THEN "Renaming"
    ELSE IF my_pet.is_alive THEN "Playing"
    ELSE "Dead"

\* the moves of one step: a frame in which the pet dies and R is pressed
\* passes through Dead on its way from Playing to Renaming
SessionMoves ==
    {<<"Naming", "Naming">>, <<"Naming", "Playing">>,
     <<"Playing", "Playing">>, <<"Playing", "Dead">>, <<"Playing", "Renaming">>,
     <<"Dead", "Dead">>, <<"Dead", "Renaming">>,
     <<"Renaming", "Renaming">>, <<"Renaming", "Playing">>}

C3_Step ==
    /\ <<SessionState, SessionState'>> \in SessionMoves
    /\ pc # "Renaming" /\ pc' = "Renaming"
          => ~my_pet'.is_alive /\ "R" \in obs'.in.pressed
    /\ ~my_pet.is_alive /\ my_pet'.is_alive
          => /\ NewPet
             /\ my_pet'.name # <<>>
             /\ my_pet'.start_time = now
    /\ pc = "Naming" /\ pc' # "Naming" => my_pet'.name # <<>>

\* C3: the session moves only along Naming -> Playing -> Dead -> Renaming ->
\* Playing; R is honoured only once the pet is dead; a dead pet becomes alive
\* only by being replaced with a new Pet after a confirmed name; feed, play
\* and sleep are called only on a live pet.
C3_SessionMoves ==
    /\ [](obs.ret # <<>> /\ obs.step = "main" => my_pet.is_alive)
    /\ [][C3_Step]_vars

\* a frame of a second session has run
C3_Witness ==
    /\ frames > 0
    /\ obs.step = "main"
    /\ SessionState = "Playing"
    /\ my_pet.start_time > 0

\* C4: feed, play and sleep return false and change no field of the pet when
\* is_alive or is_stationary is false; they return true only when both hold.
C4_RefusedCallsChangeNothing ==
    obs.step = "call" =>
        /\ ~(obs.pre.is_alive /\ obs.pre.is_stationary)
              => ~obs.ret[1][2] /\ my_pet = obs.pre
        /\ obs.ret[1][2] => obs.pre.is_alive /\ obs.pre.is_stationary
        /\ obs.pre.is_alive /\ obs.pre.is_stationary => obs.ret[1][2]

\* sleep() on a dead pet that stands still was refused
C4_Witness ==
    /\ obs.step = "call"
    /\ ~obs.pre.is_alive
    /\ obs.pre.is_stationary
    /\ obs.ret = << <<"sleep", FALSE>> >>
    /\ my_pet = obs.pre

\* the spawn rule of one main-loop frame, for a given reading of "due"
SpawnRule(due) ==
    pc = "Main" =>
        IF due
        THEN /\ Len(bugs') = Len(bugs) + 67
             /\ last_bug_spawn' = now
        ELSE /\ Len(bugs') = Len(bugs)
             /\ last_bug_spawn' = last_bug_spawn

\* no step of a session removes a bug
NoBugLost == pc \notin {"Setup", "Restart"} => Len(bugs') >= Len(bugs)

\* C5 as stated: the bug count never decreases within a session; a frame at
\* whose spawn check at least 1.0 s has passed since the last spawn, exactly
\* 1.0 s included, appends exactly 67 bugs and resets the spawn timer; every
\* other frame leaves the count unchanged.
C5_SpawnAtOneSecond ==
    [][SpawnRule(now - last_bug_spawn >= Secs(1)) /\ NoBugLost]_vars

\* C5 amended: the same, the spawn being due only when strictly more than
\* 1.0 s has passed since the last spawn.
C5_SpawnAfterOneSecond ==
    [][SpawnRule(now - last_bug_spawn > Secs(1)) /\ NoBugLost]_vars

\* a frame of the model has spawned the first 67 bugs of a session
C5_Witness ==
    /\ frames > 0
    /\ obs.step = "main"
    /\ obs.spawned
    /\ Len(bugs) = 70
    /\ last_bug_spawn = obs.t

\* the difficulty rule of one main-loop frame, for a given reading of "due"
SpeedRule(due) ==
    pc = "Main" =>
        IF due
        THEN /\ current_bug_speed' = current_bug_speed + Fx(2, 100)
             /\ last_speed_increase' = now
        ELSE /\ current_bug_speed' = current_bug_speed
             /\ last_speed_increase' = last_speed_increase

\* no step of a session lowers the speed
NoSlowdown ==
    pc \notin {"Setup", "Restart"} => current_bug_speed' >= current_bug_speed

\* a session starts at 0.12
StartsAtBaseSpeed ==
    obs.step \in {"setup", "restart"} => current_bug_speed = Fx(12, 100)

\* C6 as stated: the difficulty speed never decreases within a session; a
\* frame at whose check at least 5.0 s have passed since the last increase,
\* exactly 5.0 s included, raises it by exactly 0.02 and resets the timer;
\* every other frame leaves it unchanged; it starts at 0.12.
C6_FasterAtFiveSeconds ==
    /\ []StartsAtBaseSpeed
    /\ [][SpeedRule(now - last_speed_increase >= Secs(5)) /\ NoSlowdown]_vars

\* C6 amended: the same, the increase being due only when strictly more than
\* 5.0 s have passed since the last increase.
C6_FasterAfterFiveSeconds ==
    /\ []StartsAtBaseSpeed
    /\ [][SpeedRule(now - last_speed_increase > Secs(5)) /\ NoSlowdown]_vars

\* a frame of the model has raised the speed from 0.12 to 0.14
C6_Witness ==
    /\ frames > 0
    /\ obs.step = "main"
    /\ obs.faster
    /\ current_bug_speed = Fx(14, 100)
    /\ last_speed_increase = obs.t

\* the frame's update ran the per-second tick
Ticked == obs.upd.last_update # obs.pre.last_update

\* the frame's update charged the movement cost
Moved == ActuallyMoved(obs.in, camera_mode = "FirstPerson")

\* hunger and energy after the tick and the movement cost, before the clamp
HungerDue ==
    obs.pre.hunger + (IF Ticked THEN Fx(1, 1) ELSE 0)
                   + (IF Moved THEN Fx(2, 100) ELSE 0)

EnergyDue ==
    obs.pre.energy + (IF ~Ticked THEN 0
                      ELSE IF obs.in.keys = {} THEN Fx(1, 1) ELSE -Fx(5, 10))
                   - (IF Moved THEN Fx(5, 100) ELSE 0)

\* C7: an update of a live pet after whose tick and movement cost
\* hunger >= 100 or energy <= 0 makes the pet dead in that same update, with
\* death_time the time of the frame and the stats clamped; and an update
\* that returns a live pet returns it with hunger < 100 and energy > 0.
C7_DeathInTheSameUpdate ==
    obs.step = "main" /\ obs.pre.is_alive =>
        /\ HungerDue >= Fx(100, 1) \/ EnergyDue <= 0
              => /\ ~obs.upd.is_alive
                 /\ obs.upd.death_time = Some(obs.t)
                 /\ InRange(obs.upd)
        /\ obs.upd.is_alive
              => obs.upd.hunger < Fx(100, 1) /\ obs.upd.energy > 0

\* hunger 99.5, one tick, no movement key: hunger 100.0 and a dead pet
C7_Witness ==
    /\ frames > 0
    /\ obs.step = "main"
    /\ obs.pre.is_alive
    /\ obs.pre.hunger = Fx(995, 10)
    /\ Ticked
    /\ obs.in.keys = {}
    /\ obs.upd.hunger = Fx(100, 1)
    /\ ~obs.upd.is_alive
    /\ obs.upd.death_time = Some(obs.t)

\* a Pet as the claim describes the one a restart creates
FreshPet(name, t) ==
    [name |-> name, hunger |-> Fx(50, 1), happiness |-> Fx(50, 1),
     energy |-> Fx(50, 1), is_alive |-> TRUE, last_update |-> t,
     x |-> 0, y |-> 0, z |-> 0, vx |-> 0, vz |-> 0, rotation_v |-> 0,
     pitch |-> 0, yaw |-> 0, is_stationary |-> TRUE, start_time |-> t,
     death_time |-> <<>>]

\* a bug at an offset from the pet, at the base speed
SeedBug(ox, oz) ==
    [x |-> my_pet.x + Fx(ox, 1), z |-> my_pet.z + Fx(oz, 1), speed |-> Fx(12, 100)]

C8_Step ==
    /\ NewPet => /\ Trim(naming_input') # <<>>
                 /\ my_pet' = FreshPet(Trim(naming_input'), now)
    /\ pc = "Restart"
          => /\ pc' = "Main"
             /\ my_pet' = my_pet
             /\ ball' = [x |-> Fx(5, 1), z |-> Fx(5, 1), vx |-> 0, vz |-> 0,
                         rotation |-> 0]
             /\ bugs' = <<SeedBug(30, 30), SeedBug(-30, 45), SeedBug(45, -30)>>
             /\ current_bug_speed' = Fx(12, 100)
             /\ last_bug_spawn' = now
             /\ last_speed_increase' = now

\* C8: a confirmed non-empty name in Renaming creates a new Pet (alive, stats
\* 50, at rest at the origin, death_time unset, start_time and last_update
\* the time of the confirmation), and the next Playing frame starts with
\* that Pet, a new Ball at (5,5) at rest, exactly three bugs at (+30,+30),
\* (-30,+45), (+45,-30) from the pet, speed 0.12 and both timers at the time
\* of the restart; no bug of the session before is left.
C8_RestartState == [][C8_Step]_vars

\* a session restarted by the model is about to run its first frame
C8_Witness ==
    /\ frames > 0
    /\ obs.step = "restart"
    /\ pc = "Main"
    /\ Len(bugs) = 3
    /\ my_pet.is_alive

\* C9 as stated: after a restart every session field has its session-start
\* value: the camera mode is ThirdPerson, the enemy speed 0.12, both timers
\* the time of the restart, and the HUD message the one the session starts
\* with.
C9_FullReset ==
    obs.step = "restart" =>
        /\ camera_mode = "ThirdPerson"
        /\ current_bug_speed = Fx(12, 100)
        /\ last_bug_spawn = obs.t
        /\ last_speed_increase = obs.t
        /\ message = <<"Welcome back!">>

C9_Step ==
    /\ pc = "Renaming" => /\ camera_mode' = camera_mode
                          /\ message' = message
                          /\ current_bug_speed' = current_bug_speed
    /\ pc = "Restart" => /\ camera_mode' = camera_mode
                         /\ current_bug_speed' = Fx(12, 100)
                         /\ last_bug_spawn' = now
                         /\ last_speed_increase' = now
                         /\ message' = <<"Welcome back!">>

\* C9 amended: a restart sets the enemy speed to 0.12, both timers to the
\* time of the restart and the HUD message to "Welcome back!"; the camera
\* mode is not reset: renaming and restart leave it as the session before
\* left it.
C9_ResetKeepsCamera == [][C9_Step]_vars

\* a restarted session begins in first person
C9_Witness ==
    /\ frames > 0
    /\ obs.step = "restart"
    /\ camera_mode = "FirstPerson"
    /\ message = <<"Welcome back!">>

\* the step (mx, mz) points along (dx, dz), to within the truncation of its
\* two components (far targets are compared at 1/100 of the resolution)
Parallel(mx, mz, dx, dz) ==
    IF Abs(dx) <= 32000 /\ Abs(dz) <= 32000
    THEN Abs(mx * dz - mz * dx) <= Abs(dx) + Abs(dz)
    ELSE Abs(mx * TDiv(dz, 100) - mz * TDiv(dx, 100))
            <= Abs(TDiv(dx, 100)) + Abs(TDiv(dz, 100)) + Abs(mx) + Abs(mz)

\* C10: Bug::update moves the bug toward the target by its speed (to within
\* 0.002, the resolution of the arithmetic here; exactly, when the target
\* lies on an axis through the bug) when the distance is above 0.1, leaves
\* the bug as it is when the distance is 0.1 or less, and never changes the
\* speed.
C10_BugStep ==
    obs.step = "bug" =>
        LET b0 == obs.bug
            b1 == bugs[1]
            dx == my_pet.x - b0.x
            dz == my_pet.z - b0.z
            mx == b1.x - b0.x
            mz == b1.z - b0.z
        IN  /\ b1.speed = b0.speed
            /\ Hypot(dx, dz) <= Fx(1, 10) => b1 = b0
            /\ Hypot(dx, dz) > Fx(1, 10)
                  => /\ Abs(Hypot(mx, mz) - b0.speed) <= Fx(2, 1000)
                     /\ mx * dx >= 0 /\ mz * dz >= 0
                     /\ Parallel(mx, mz, dx, dz)
                     /\ dz = 0 => mz = 0 /\ Abs(mx) = b0.speed
                     /\ dx = 0 => mx = 0 /\ Abs(mz) = b0.speed

\* a bug off both axes, further than 0.1 from the target, has moved
C10_Witness ==
    /\ obs.step = "bug"
    /\ obs.bug.x # my_pet.x /\ obs.bug.z # my_pet.z
    /\ Hypot(my_pet.x - obs.bug.x, my_pet.z - obs.bug.z) > Fx(1, 10)
    /\ bugs[1].x # obs.bug.x /\ bugs[1].z # obs.bug.z

\* the distance from the bug to its target
BugDist == Hypot(my_pet.x - bugs[1].x, my_pet.z - bugs[1].z)

\* C11: with the target at rest, a call of Bug::update never increases the
\* bug's distance to the target, at any speed 0.12 + 0.02 * k, and a bug
\* within 0.1 of the target no longer moves.
C11_NoJitter ==
    [][pc = "Bug" => /\ BugDist' <= BugDist
                     /\ BugDist <= Fx(1, 10) => bugs' = bugs]_vars

\* the spec's example: pet at the origin, ball at rest at (1, 0)
BallExample == StagePetBall([Start EXCEPT !.ball.x = Fx(1, 1), !.ball.z = 0])

\* C12: at the pet-ball step, a pet closer than 1.5 to the ball replaces the
\* ball's velocity by -(pet - ball) * 0.2 on each axis and gains exactly 1.0
\* happiness; at 1.5 or more the step changes neither the ball's velocity
\* nor the pet; with the pet at the origin and the ball at (1, 0), ball.vx
\* becomes 0.2.
C12_BallPush ==
    obs.step = "main" =>
        LET dx == obs.bugged.x - obs.ball.x
            dz == obs.bugged.z - obs.ball.z
        IN  /\ IF Hypot(dx, dz) < Fx(15, 10)
               THEN /\ ball.vx = TDiv(-dx * 2, 10)
                    /\ ball.vz = TDiv(-dz * 2, 10)
                    /\ obs.hud = [obs.bugged EXCEPT !.happiness = @ + Fx(1, 1)]
               ELSE /\ ball.vx = obs.ball.vx
                    /\ ball.vz = obs.ball.vz
                    /\ obs.hud = obs.bugged
            /\ ball.x = obs.ball.x /\ ball.z = obs.ball.z
            /\ ball.rotation = obs.ball.rotation
            /\ BallExample.ball.vx = Fx(2, 10) /\ BallExample.ball.vz = 0
            /\ BallExample.my_pet.happiness = Fx(51, 1)

\* a pet in contact with a rolling ball has replaced the ball's velocity
C12_Witness ==
    /\ frames > 0
    /\ obs.step = "main"
    /\ obs.hit
    /\ obs.ball.vx # 0
    /\ ball.vx # obs.ball.vx
    /\ ball.vx = TDiv(-(my_pet.x - ball.x) * 2, 10)

(* ------------------------------------------------------------------ *)
(* Terrain: the chunks of one frame, lines 543-605                    *)
(* A u32 is a pair <<high half, low half>> of 16-bit words.           *)
(* ------------------------------------------------------------------ *)
Word == 256 * 256

\* an i32 as the u32 of the same bits
U32(n) ==
    IF n >= 0 THEN <<n \div Word, n % Word>>
    ELSE <<Word - 1 - ((-n - 1) \div Word), Word - 1 - ((-n - 1) % Word)>>

\* u32::wrapping_add
WrappingAdd(a, b) == <<(a[1] + b[1] + (a[2] + b[2]) \div Word) % Word, (a[2] + b[2]) % Word>>

\* a * k mod 2^32 for a byte k
MulByte(a, k) == <<(a[1] * k + (a[2] * k) \div Word) % Word, (a[2] * k) % Word>>

\* a << 8
Shl8(a) == <<(a[1] * 256 + a[2] \div 256) % Word, (a[2] * 256) % Word>>

\* u32::wrapping_mul (and i32 multiplication where it does not overflow)
WrappingMul(a, b) ==
    WrappingAdd(WrappingAdd(MulByte(a, b[2] % 256),
                            Shl8(MulByte(a, b[2] \div 256))),
                WrappingAdd(Shl8(Shl8(MulByte(a, b[1] % 256))),
                            Shl8(Shl8(Shl8(MulByte(a, b[1] \div 256))))))

\* the exclusive or of the low n bits
RECURSIVE BitXor(_, _, _)
BitXor(a, b, n) ==
    IF n = 0 THEN 0
    ELSE ((a + b) % 2) + 2 * BitXor(a \div 2, b \div 2, n - 1)

\* a ^ b
Xor32(a, b) == <<BitXor(a[1], b[1], 16), BitXor(a[2], b[2], 16)>>

\* line 560: the seed of a chunk, where the line does not panic (SeedOutcomes)
ChunkSeed(cx, cz) ==
    Xor32(WrappingMul(U32(cx), U32(73856093)), WrappingMul(U32(cz), U32(19349663)))

\* line 564: the next state of the generator
NextRng(rng) == WrappingAdd(WrappingMul(rng, U32(1103515245)), U32(12345))

\* line 565: (rng >> 16) & 0x7fff
RngOut(rng) == rng[1] % 32768

\* (n % 100) as f32 / 100.0 * chunk_size
FeatureOffset(n) == (n % 100) * Fx(20, 100)

\* lines 577-580, one feature from the generator state of its last draw:
\* <<feature, generator state>>
FeatureKind(rng, fx, fz) == <<[x |-> fx, z |-> fz, kind |-> RngOut(rng) % 4], rng>>

FeatureZ(rng, fx, z) == FeatureKind(NextRng(rng), fx, z + FeatureOffset(RngOut(rng)))

FeatureX(rng, x, z) == FeatureZ(NextRng(rng), x + FeatureOffset(RngOut(rng)), z)

Feature(rng, x, z) == FeatureX(NextRng(rng), x, z)

\* lines 575-603: k features in order
RECURSIVE Features(_, _, _, _)
Features(rng, k, x, z) ==
    IF k = 0 THEN <<>>
    ELSE LET f == Feature(rng, x, z)
         IN  <<f[1]>> \o Features(f[2], k - 1, x, z)

\* lines 574-575, from the generator state of the first draw
ChunkFeatures(rng, x, z) == Features(rng, (RngOut(rng) % 5) + 2, x, z)

\* a chunk whose seed also takes the clock
GenerateChunk_timed(cx, cz) ==
    [ground |-> (cx + cz) % 2,
     features |-> ChunkFeatures(NextRng(WrappingAdd(ChunkSeed(cx, cz), U32(now))),
                                cx * Fx(20, 1), cz * Fx(20, 1))]

\* lines 555-604: what one chunk draws
GenerateChunk(cx, cz) ==
    [ground |-> (cx + cz) % 2,
     features |-> ChunkFeatures(NextRng(ChunkSeed(cx, cz)),
                                cx * Fx(20, 1), cz * Fx(20, 1))]

\* lines 543-554: the chunks around the pet (view_dist 2)
RenderChunks(pet) ==
    LET pcx == pet.x \div Fx(20, 1)
        pcz == pet.z \div Fx(20, 1)
    IN  [c \in ((pcx - 2)..(pcx + 2)) \X ((pcz - 2)..(pcz + 2)) |->
            GenerateChunk(c[1], c[2])]

\* frames that render: where the pet is, the camera mode, the time passing
Views ==
    {[x |-> 0, z |-> 0, cam |-> "ThirdPerson", dt |-> 0],
     [x |-> Fx(5, 1), z |-> Fx(19, 1), cam |-> "FirstPerson", dt |-> 1],
     [x |-> -Fx(30, 1), z |-> Fx(45, 1), cam |-> "ThirdPerson", dt |-> 3],
     [x |-> Fx(25, 1), z |-> -Fx(1, 100), cam |-> "ThirdPerson", dt |-> 2],
     [x |-> Fx(70, 1), z |-> Fx(70, 1), cam |-> "FirstPerson", dt |-> 1],
     [x |-> Fx(45, 1), z |-> -Fx(30, 1), cam |-> "FirstPerson", dt |-> 0]}

InitChunk ==
    /\ Install([Start EXCEPT !.pc = "Render"])
    /\ frames = 0

RenderCall ==
    /\ frames < MaxFrames
    /\ \E v \in Views :
          /\ my_pet' = [my_pet EXCEPT !.x = v.x, !.z = v.z]
          /\ camera_mode' = v.cam
          /\ now' = now + v.dt
          /\ obs' = [NoObs EXCEPT !.step = "render",
                                  !.chunks = RenderChunks(my_pet'),
                                  !.seen = obs.seen @@ obs.chunks]
    /\ frames' = frames + 1
    /\ UNCHANGED <<pc, naming_input, ball, bugs, current_bug_speed,
                   last_bug_spawn, last_speed_increase, message>>

NextChunk == RenderCall

SpecChunk == InitChunk /\ [][NextChunk]_vars

(* ------------------------------------------------------------------ *)
(* The seed and the draws of one chunk, for each build of the program  *)
(* ------------------------------------------------------------------ *)
\* chunk coordinates around zero and around the first overflows of line 560
SeedInputs == {-31, -30, -29, -1, 0, 1, 29, 30, 31} \X {-111, -110, -1, 0, 1, 110, 111}

\* the i32 product n * k (k > 1 odd) lies outside the i32 range
MulOverflows(n, k) == Abs(n) > 2147483647 \div k

\* line 560 overflows in one of its two multiplications
SeedOverflows(cx, cz) == MulOverflows(cx, 73856093) \/ MulOverflows(cz, 19349663)

\* line 560 as the builds execute it: with overflow checks (the default of a
\* debug build) an overflowing multiplication panics, without them (the
\* default of a release build) it wraps
SeedOutcomes(cx, cz) ==
    {Some(ChunkSeed(cx, cz))} \cup (IF SeedOverflows(cx, cz) THEN {None} ELSE {})

\* lines 563-566: the states rng takes over n calls of next_rng
RECURSIVE DrawStates(_, _)
DrawStates(rng, n) ==
    IF n = 0 THEN <<>> ELSE <<NextRng(rng)>> \o DrawStates(NextRng(rng), n - 1)

\* lines 560-580 for one chunk under the outcome out of line 560
SeedRun(cx, cz, out) ==
    IF IsNone(out)
    THEN [cx |-> cx, cz |-> cz, called |-> TRUE, seed |-> None,
          states |-> <<>>, features |-> <<>>]
    ELSE LET fs == ChunkFeatures(NextRng(out[1]), cx * Fx(20, 1), cz * Fx(20, 1))
         IN  [cx |-> cx, cz |-> cz, called |-> TRUE, seed |-> out,
              states |-> DrawStates(out[1], 1 + 3 * Len(fs)), features |-> fs]

InitSeed ==
    /\ \E c \in SeedInputs :
          Install([Start EXCEPT
              !.pc = "Seed",
              !.obs = [NoObs EXCEPT !.step = "seed",
                                    !.gen = [cx |-> c[1], cz |-> c[2], called |-> FALSE,
                                             seed |-> None, states |-> <<>>,
                                             features |-> <<>>]]])
    /\ frames = 0

SeedCall ==
    /\ pc = "Seed"
    /\ ~obs.gen.called
    /\ \E out \in SeedOutcomes(obs.gen.cx, obs.gen.cz) :
          /\ obs' = [obs EXCEPT !.gen = SeedRun(obs.gen.cx, obs.gen.cz, out)]
          /\ pc' = IF IsNone(out) THEN "Panicked" ELSE pc
    /\ UNCHANGED <<now, naming_input, my_pet, ball, bugs, current_bug_speed,
                   last_bug_spawn, last_speed_increase, message, camera_mode, frames>>

NextSeed == SeedCall

SpecSeed == InitSeed /\ [][NextSeed]_vars

Rejected == /\ pc \in {"Naming", "Renaming"}
            /\ "Enter" \in obs'.in.pressed
            /\ Trim(naming_input') = <<>>

\* C14: Enter on an empty or blank name, on the naming or the renaming
\* screen, leaves the screen where it is and changes neither the pet nor the
\* ball, the bugs, their speed, the timers, the message or the camera; and
\* the pet has a non-empty name whenever the program is past the first
\* naming screen.
C14_BlankNameRejected ==
    /\ [](pc # "Naming" => my_pet.name # <<>> /\ Trim(my_pet.name) = my_pet.name)
    /\ [][Rejected =>
            /\ pc' = pc
            /\ UNCHANGED <<my_pet, ball, bugs, current_bug_speed, last_bug_spawn,
                           last_speed_increase, message, camera_mode>>]_vars

\* Enter on a name of spaces was refused on the renaming screen
C14_Witness ==
    /\ frames > 0
    /\ pc = "Renaming"
    /\ obs.step = "renaming"
    /\ "Enter" \in obs.in.pressed
    /\ naming_input # <<>>
    /\ Trim(naming_input) = <<>>

\* the frame in which a name is confirmed
NameConfirmed == (pc = "Naming" /\ pc' = "Setup") \/ NewPet

\* C15: the pet of a session is created when its name is confirmed: after
\* the confirming frame, on the first naming screen as on a restart, its
\* start_time and last_update are the time of that frame.
C15_PetBornAtConfirmation ==
    [][NameConfirmed => /\ my_pet'.start_time = now
                        /\ my_pet'.last_update = now]_vars

\* C16: the hunger, happiness and energy the HUD bars of a frame are drawn
\* from (the pet after Pet::update, the bug loop and the pet-ball step of
\* that frame) are each within [0, 100], whether the pet is alive or dead.
C16_HudStatsInRange == obs.step = "main" => InRange(obs.hud)

\* at least one second lies between the frame's time and last_update
TickDue == obs.t - obs.pre.last_update >= Secs(1)

\* C17: an update of a live pet applies the per-second tick exactly when at
\* least 1.0 second has passed since last_update, 1.0 second included; the
\* tick adds 1.0 to hunger, takes 0.25 from happiness, adds 1.0 to energy
\* with no movement key down and takes 0.5 otherwise, and sets last_update
\* to the time of the frame; it is applied once at most.
C17_TickAtOneSecond ==
    obs.step = "main" /\ obs.pre.is_alive =>
        /\ obs.upd.last_update = IF TickDue THEN obs.t ELSE obs.pre.last_update
        /\ obs.upd.happiness =
              Clamp(obs.pre.happiness - (IF TickDue THEN Fx(25, 100) ELSE 0),
                    0, Fx(100, 1))
        /\ obs.upd.hunger =
              Clamp(obs.pre.hunger + (IF TickDue THEN Fx(1, 1) ELSE 0)
                                   + (IF Moved THEN Fx(2, 100) ELSE 0),
                    0, Fx(100, 1))
        /\ obs.upd.energy =
              Clamp(obs.pre.energy + (IF ~TickDue THEN 0
                                      ELSE IF obs.in.keys = {} THEN Fx(1, 1)
                                      ELSE -Fx(5, 10))
                                   - (IF Moved THEN Fx(5, 100) ELSE 0),
                    0, Fx(100, 1))

\* C20: once the pet is dead, no field of it changes in any later frame,
\* until a restart replaces the Pet instance.
C20_DeadPetFrozen ==
    [][~my_pet.is_alive /\ ~NewPet => my_pet' = my_pet]_vars

\* the distance at which bug i of the frame's bug loop ended its move
BugEnd(i) == Hypot(obs.upd.x - bugs[i].x, obs.upd.z - bugs[i].z)

\* the bugs of the frame's bug loop that ended closer than 1.0
Killers == {i \in 1..obs.n : BugEnd(i) < Fx(1, 1)}

\* C18: Pet::update runs before the bug loop. A pet that is alive after the
\* update is dead after the bug loop exactly if some bug ended its move
\* closer than 1.0, whatever its stats, with death_time the time of the
\* frame and the message of the kill; a pet that is dead after the update
\* (of exhaustion in this frame, or from before) leaves the bug loop with
\* every field and the message unchanged.
C18_UpdateBeforeBugs ==
    obs.step = "main" =>
        /\ obs.upd.is_alive =>
              /\ obs.bugged.is_alive <=> Killers = {}
              /\ ~obs.bugged.is_alive =>
                    /\ obs.bugged.death_time = Some(obs.t)
                    /\ obs.msgs[2] = <<"was killed by a bug!", obs.upd.name>>
        /\ ~obs.upd.is_alive =>
              /\ obs.bugged = obs.upd
              /\ obs.msgs[2] = obs.msgs[1]

\* the pet died of exhaustion in the frame's update and a bug ended its
\* move closer than 1.0 in the same frame
C18_Witness ==
    /\ frames > 0
    /\ obs.step = "main"
    /\ obs.pre.is_alive
    /\ ~obs.upd.is_alive
    /\ obs.upd.energy = 0
    /\ Killers # {}
    /\ obs.msgs[2] # <<"was killed by a bug!", obs.upd.name>>

\* the bugs of the frame's bug loop that ended at 1.0 or more and less than 2.0
Drainers ==
    {i \in 1..obs.n : LET d == BugEnd(i) IN Fx(1, 1) <= d /\ d < Fx(2, 1)}

\* the drainers processed while the pet was alive: all of them unless a bug
\* killed the pet, and then those before the first bug that ended closer
\* than 1.0
Draining ==
    IF ~obs.upd.is_alive THEN {}
    ELSE LET k == Killers IN {i \in Drainers : \A j \in k : i < j}

\* C19: in the bug loop of a frame, every bug that ends its move at a
\* distance d with 1.0 <= d < 2.0 while the pet is alive takes 0.1 from
\* happiness and 0.05 from energy, so k such bugs take 0.1 k and 0.05 k from
\* a pet that stays alive through the loop; bugs at 2.0 or more take nothing,
\* and no bug processed after the pet was killed takes anything. Nothing else
\* of the pet changes in the loop but is_alive and death_time at a kill.
C19_DrainPerBug ==
    obs.step = "main" =>
        LET k == Cardinality(Draining)
        IN  /\ obs.bugged.happiness = obs.upd.happiness - Fx(1, 10) * k
            /\ obs.bugged.energy = obs.upd.energy - Fx(5, 100) * k
            /\ obs.bugged.hunger = obs.upd.hunger
            /\ obs.bugged.is_alive => k = Cardinality(Drainers)

\* the pet stayed alive through a bug loop in which several bugs ended in
\* the draining range and others ended at 2.0 or more
C19_Witness ==
    /\ frames > 0
    /\ obs.step = "main"
    /\ obs.bugged.is_alive
    /\ Cardinality(Drainers) >= 2
    /\ \E i \in 1..obs.n : BugEnd(i) >= Fx(2, 1)
    /\ obs.bugged.energy = obs.upd.energy - Fx(5, 100) * Cardinality(Drainers)

\* C21 as stated: the ball update, the bug movement, the bug spawn and the
\* difficulty increase run only while the session is Playing: a step taken
\* while the session is Dead changes neither the bugs (their number and
\* positions), nor the difficulty speed, nor the ball.
C21_FrozenWhileDead ==
    [][SessionState = "Dead" => UNCHANGED <<bugs, current_bug_speed, ball>>]_vars

\* C21 amended: the four steps run in every frame of the main loop, also
\* while the session is Dead: in a frame that starts with a dead pet the ball
\* is updated, every bug takes the session speed and moves towards the pet,
\* 67 bugs are spawned if more than 1.0 s has passed since the last spawn and
\* the speed grows by 0.02 if more than 5.0 s have passed since the last
\* increase. Only the renaming screen suspends them.
C21_RunsWhileDead ==
    [][/\ SessionState = "Dead" =>
             /\ obs'.ball = Ball_update(ball)
             /\ SubSeq(bugs', 1, Len(bugs)) = MoveBugs(bugs, current_bug_speed, my_pet)
             /\ Len(bugs') = Len(bugs)
                   + (IF now - last_bug_spawn > Secs(1) THEN 67 ELSE 0)
             /\ current_bug_speed' = current_bug_speed
                   + (IF now - last_speed_increase > Secs(5) THEN Fx(2, 100) ELSE 0)
       /\ pc = "Renaming" /\ pc' = "Renaming" =>
             UNCHANGED <<bugs, current_bug_speed, ball, last_bug_spawn,
                         last_speed_increase>>]_vars

\* a frame that began with a dead pet moved the three bugs of the session
\* and spawned 67 more
C21_Witness ==
    /\ frames > 0
    /\ obs.step = "main"
    /\ ~obs.pre.is_alive
    /\ obs.spawned
    /\ Len(bugs) = 70
    /\ bugs[1].x < Fx(30, 1)
    /\ last_bug_spawn = obs.t

\* the frame's input holds a forward or backward key, a left or right key
HeldFwdBack == obs.in.keys \cap {"Up", "W", "Down", "S"} # {}

HeldSide == obs.in.keys \cap {"Left", "A", "Right", "D"} # {}

\* the yaw a third-person frame adds for the left and right keys
TurnYaw ==
    (IF obs.in.keys \cap {"Left", "A"} # {} THEN -Fx(5, 100) ELSE 0)
    + (IF obs.in.keys \cap {"Right", "D"} # {} THEN Fx(5, 100) ELSE 0)

\* energy and hunger after the update of a live pet, when the movement cost
\* is charged or not
StatsWithCost(charged) ==
    /\ obs.upd.hunger =
          Clamp(obs.pre.hunger + (IF Ticked THEN Fx(1, 1) ELSE 0)
                               + (IF charged THEN Fx(2, 100) ELSE 0),
                0, Fx(100, 1))
    /\ obs.upd.energy =
          Clamp(obs.pre.energy + (IF ~Ticked THEN 0
                                  ELSE IF HeldFwdBack \/ HeldSide THEN -Fx(5, 10)
                                  ELSE Fx(1, 1))
                               - (IF charged THEN Fx(5, 100) ELSE 0),
                0, Fx(100, 1))

\* C22: an update of a live pet charges the movement cost (energy -0.05,
\* hunger +0.02) exactly when a forward or backward key is down, or a left or
\* right key in first person; in third person a left or right key turns the
\* pet by -0.05 or +0.05 and adds neither velocity nor cost, but any movement
\* key, the turn keys included, makes is_stationary false and makes the
\* per-second tick take 0.5 from energy instead of adding 1.0.
C22_MovementCost ==
    obs.step = "main" /\ obs.pre.is_alive =>
        /\ StatsWithCost(HeldFwdBack \/ (camera_mode = "FirstPerson" /\ HeldSide))
        /\ HeldFwdBack \/ HeldSide => ~obs.upd.is_stationary
        /\ camera_mode = "ThirdPerson" /\ ~HeldFwdBack =>
              /\ obs.upd.yaw = obs.pre.yaw + TurnYaw
              /\ obs.upd.vx = FMul(obs.pre.vx, 95, 100)
              /\ obs.upd.vz = FMul(obs.pre.vz, 95, 100)
              /\ obs.upd.pitch = obs.pre.pitch

\* a third-person frame with only A held in which the tick ran: the pet
\* turned left, paid no movement cost and lost 0.5 energy to the tick
C22_Witness ==
    /\ frames > 0
    /\ obs.step = "main"
    /\ obs.pre.is_alive
    /\ camera_mode = "ThirdPerson"
    /\ obs.in.keys = {"A"}
    /\ Ticked
    /\ obs.upd.yaw = obs.pre.yaw - Fx(5, 100)
    /\ obs.upd.energy = obs.pre.energy - Fx(5, 10)
    /\ obs.upd.hunger = obs.pre.hunger + Fx(1, 1)
    /\ ~obs.upd.is_stationary
    /\ obs.upd.x = obs.pre.x /\ obs.upd.z = obs.pre.z

\* the pet a call that is honoured leaves, as the claim describes it
Honoured(act, p) ==
    IF act = "feed" THEN [p EXCEPT !.hunger = @ - Fx(15, 1)]
    ELSE IF act = "play" THEN [p EXCEPT !.happiness = @ + Fx(15, 1),
                                        !.energy = @ - Fx(10, 1)]
    ELSE [p EXCEPT !.energy = @ + Fx(20, 1), !.hunger = @ + Fx(5, 1)]

\* C23: on a pet that is alive and stationary feed() changes only hunger
\* (-15.0), play() only happiness (+15.0) and energy (-10.0), sleep() only
\* energy (+20.0) and hunger (+5.0); each returns true and leaves every other
\* field as it was; the call does not clamp, and the next update() of the
\* pet, which is still alive, brings the stats back into [0, 100].
C23_ActionEffects ==
    obs.step = "call" /\ obs.pre.is_alive /\ obs.pre.is_stationary =>
        /\ obs.ret[1][2]
        /\ my_pet = Honoured(obs.ret[1][1], obs.pre)
        /\ my_pet.is_alive
        /\ InRange(Pet_update(my_pet, NoInput, FALSE, now))

\* play() was honoured on a pet with happiness 95 and energy 0: happiness
\* 110 and energy -10 until the next update
C23_Witness ==
    /\ obs.step = "call"
    /\ obs.ret = << <<"play", TRUE>> >>
    /\ obs.pre.happiness = Fx(95, 1)
    /\ my_pet.happiness = Fx(110, 1)
    /\ my_pet.energy = -Fx(10, 1)
    /\ my_pet.is_alive
    /\ my_pet.death_time = None

\* C24: every Bug::update of the main loop runs with the bug's speed equal
\* to the session's current speed: after a frame every bug that was in the
\* loop carries the speed the session had during the loop, and a bug that
\* entered the frame with another speed (one spawned with the default 0.12
\* after an increase, or one that moved before the increase) has moved by the
\* session speed, not by the speed it carried.
C24_SharedSpeed ==
    [][pc = "Main" =>
          \A i \in 1..Len(bugs) :
              /\ bugs'[i].speed = current_bug_speed
              /\ bugs[i].speed # current_bug_speed =>
                    bugs'[i] = Bug_update([bugs[i] EXCEPT !.speed = current_bug_speed],
                                          my_pet'.x, my_pet'.z)]_vars

\* 67 bugs spawned with the default 0.12 in a frame after the one that
\* raised the speed to 0.14 have moved in a later frame and carry 0.14
C24_Witness ==
    /\ frames > 1
    /\ obs.step = "main"
    /\ current_bug_speed = Fx(14, 100)
    /\ last_speed_increase < last_bug_spawn
    /\ last_bug_spawn < obs.t
    /\ obs.n = 137
    /\ \A i \in 1..137 : bugs[i].speed = Fx(14, 100)
    /\ bugs[137] # bugs[70]

\* C25: a live pet that ends a frame with energy <= 0 or hunger >= 100 is
\* dead when the Pet::update of the next frame returns.
C25_DeadAtNextUpdate ==
    [][/\ pc = "Life"
       /\ my_pet.is_alive
       /\ my_pet.energy <= 0 \/ my_pet.hunger >= Fx(100, 1)
       => ~obs'.upd.is_alive]_vars

\* the initial hunger of a pet, line 144
InitialHunger == Pet_new(<<>>, 0).hunger

\* C26: in a session whose frames keep running while the clock advances and
\* in which feed() is never called, the pet eventually dies: while it lives
\* its hunger never decreases and every tick of Pet::update adds 1.0 to it,
\* so that it holds at least 50 plus the number of ticks, and the pet is dead
\* by the 50th tick.
C26_DiesWithoutFood ==
    /\ [](pc = "Life" =>
            /\ obs.ticks <= 50
            /\ my_pet.is_alive => my_pet.hunger >= InitialHunger + obs.ticks * Fx(1, 1))
    /\ [][my_pet'.is_alive =>
            /\ my_pet'.hunger >= my_pet.hunger
            /\ obs'.ticks = obs.ticks + 1 =>
                   obs'.upd.hunger = my_pet.hunger + Fx(1, 1)]_vars
    /\ <>(~my_pet.is_alive)

\* the pet died of hunger at its 50th tick
C26_Witness ==
    /\ pc = "Life"
    /\ obs.step = "life"
    /\ obs.ticks = 50
    /\ ~my_pet.is_alive
    /\ my_pet.hunger = Fx(100, 1)
    /\ my_pet.energy > 0
    /\ my_pet.death_time = Some(my_pet.last_update)

\* the low 32 bits of m * k for 0 <= m < 2^15 and 0 < k < 2^31, in halves
LowOfProduct(m, k) ==
    LET lo == m * (k % 65536)
        hi == m * (k \div 65536) + lo \div 65536
    IN  <<hi % 65536, lo % 65536>>

\* the low 32 bits of -v
LowOfNegated(v) ==
    IF v[2] = 0 THEN <<(65536 - v[1]) % 65536, 0>>
    ELSE <<65535 - v[1], 65536 - v[2]>>

\* the low 32 bits of the integer n * k
LowProduct(n, k) ==
    IF n >= 0 THEN LowOfProduct(n, k) ELSE LowOfNegated(LowOfProduct(-n, k))

\* (state * k + c) mod 2^32 for a u32 state in halves, 0 < k < 2^31 and a
\* small c
LcgStep(state, k, c) ==
    LET k1 == k \div 65536
        k0 == k % 65536
        lo == state[2] * k0 + c
        hi == ((state[1] * k0) % 65536) + ((state[2] * k1) % 65536) + lo \div 65536
    IN  <<hi % 65536, lo % 65536>>

\* the draw read off a generator state: (state >> 16) & 0x7FFF
DrawOf(state) == state[1] % 32768

\* the seed is the low 32 bits of (cx * 73856093) XOR (cz * 19349663)
SeedAsClaimed(g) ==
    g.seed = Some(Xor32(LowProduct(g.cx, 73856093), LowProduct(g.cz, 19349663)))

\* every generator state is (state * 1103515245 + 12345) mod 2^32 of the one
\* before; the first draw gives 2..6 features, the next three of each feature
\* its offsets (0..99 hundredths of 20.0) and its kind (0..3)
DrawsAsClaimed(g) ==
    /\ Len(g.states) = 1 + 3 * Len(g.features)
    /\ \A i \in 1..Len(g.states) :
          g.states[i] = LcgStep(IF i = 1 THEN g.seed[1] ELSE g.states[i - 1],
                                1103515245, 12345)
    /\ Len(g.features) = 2 + (DrawOf(g.states[1]) % 5)
    /\ Len(g.features) \in 2..6
    /\ \A j \in 1..Len(g.features) :
          LET f == g.features[j]
              ox == f.x - g.cx * Fx(20, 1)
              oz == f.z - g.cz * Fx(20, 1)
          IN  /\ ox = (DrawOf(g.states[3 * j - 1]) % 100) * Fx(20, 100)
              /\ oz = (DrawOf(g.states[3 * j]) % 100) * Fx(20, 100)
              /\ ox \in {h * Fx(20, 100) : h \in 0..99}
              /\ oz \in {h * Fx(20, 100) : h \in 0..99}
              /\ f.kind = DrawOf(g.states[3 * j + 1]) % 4
              /\ f.kind \in 0..3

\* C27: for every chunk (cx, cz), negative coordinates and coordinates whose
\* products overflow the i32 range included, the seed is defined and is the
\* low 32 bits of (cx * 73856093) XOR (cz * 19349663), and the draws follow
\* the generator: count in 2..6, offsets in 0..99 hundredths, kind in 0..3.
C27_SeedAndDraws ==
    obs.step = "seed" /\ obs.gen.called =>
        /\ SeedAsClaimed(obs.gen)
        /\ DrawsAsClaimed(obs.gen)

\* wherever line 560 does not panic the seed and the draws are as C27 says
SeedWhereNoPanic ==
    obs.step = "seed" /\ obs.gen.called /\ pc # "Panicked" =>
        /\ SeedAsClaimed(obs.gen)
        /\ DrawsAsClaimed(obs.gen)

\* line 560 has panicked only where one of its products overflows
PanicOnlyOnOverflow ==
    pc = "Panicked" => SeedOverflows(obs.gen.cx, obs.gen.cz)

====
